---- MODULE Spec2Model ----
(***************************************************************************)
(* Wallpaper Scenes/SkyLightBridge.h: forward declarations of three        *)
(* SkyLight window-server functions and the CGError alias.                 *)
(*                                                                         *)
(* The header defines no function body, so the model is the call interface *)
(* the declarations fix: a caller passes arguments, each argument is       *)
(* converted to the declared parameter type (C's implicit conversion at a  *)
(* prototyped call), and the callee, whose body lives in the operating     *)
(* system, returns some value of the declared return type.                 *)
(*                                                                         *)
(* Integers keep their declared width.  A value is a little-endian         *)
(* sequence of 16-bit limbs in two's complement, because 2^32 and 2^63 do  *)
(* not fit the model checker's integers.                                   *)
(***************************************************************************)
EXTENDS Integers, Sequences, FiniteSets, TLC

VARIABLES pc, cid, given, args, ret, retOf

vars == <<pc, cid, given, args, ret, retOf>>

\* How far around each limb boundary (0 and 0xFFFF) the sampled limbs reach.
Spread == 1

----------------------------------------------------------------------------
(* Representation of fixed-width integers *)

LimbBase == 2^16
LimbMax == LimbBase - 1
SignBit == 2^15

----------------------------------------------------------------------------
(* The declarations, SkyLightBridge.h:18-23 *)

\* typedef int CGError;
CGError == "int"

IntTypes == {"uint32_t", "int64_t", "int"}

RefTypes == {"CFArrayRef", "CFURLRef", "CFDictionaryRef"}

\* <stdint.h> widths; int is 32 bits on every ABI the header's platform has.
TypeBits(t) ==
    CASE t = "uint32_t" -> 32
      [] t = "int64_t" -> 64
      [] t = "int" -> 32

TypeSigned(t) ==
    CASE t = "uint32_t" -> FALSE
      [] t = "int64_t" -> TRUE
      [] t = "int" -> TRUE

NLimbs(t) == TypeBits(t) \div 16

\* The widest declared integer type holds every value of the others.
CanonLimbs == NLimbs("int64_t")

\* Mutant: the connection parameter declared as a plain int.
CGSCopyManagedDisplaySpaces_Params_IntConnection == <<"int">>

\* extern CFArrayRef CGSCopyManagedDisplaySpaces(uint32_t connection);
CGSCopyManagedDisplaySpaces_Params == <<"uint32_t">>

CGSCopyManagedDisplaySpaces_Ret == "CFArrayRef"

\* Mutant: the connection parameter declared as a plain int.
CGSSetDesktopImageURL_Params_IntConnection ==
    <<"int", "int64_t", "CFURLRef", "CFDictionaryRef">>

\* Mutant: the space identifier declared as a plain int.
CGSSetDesktopImageURL_Params_IntSpace ==
    <<"uint32_t", "int", "CFURLRef", "CFDictionaryRef">>

\* extern CGError CGSSetDesktopImageURL(uint32_t connection, int64_t spaceID,
\*                                     CFURLRef url, CFDictionaryRef options);
CGSSetDesktopImageURL_Params ==
    <<"uint32_t", "int64_t", "CFURLRef", "CFDictionaryRef">>

CGSSetDesktopImageURL_Ret == CGError

\* Mutant: the result declared as a plain int.
CGSMainConnectionID_Ret_Int == "int"

\* extern uint32_t CGSMainConnectionID(void);
CGSMainConnectionID_Params == <<>>

CGSMainConnectionID_Ret == "uint32_t"

Functions ==
    {"CGSCopyManagedDisplaySpaces", "CGSSetDesktopImageURL", "CGSMainConnectionID"}

Params(f) ==
    CASE f = "CGSCopyManagedDisplaySpaces" -> CGSCopyManagedDisplaySpaces_Params
      [] f = "CGSSetDesktopImageURL" -> CGSSetDesktopImageURL_Params
      [] f = "CGSMainConnectionID" -> CGSMainConnectionID_Params

RetType(f) ==
    CASE f = "CGSCopyManagedDisplaySpaces" -> CGSCopyManagedDisplaySpaces_Ret
      [] f = "CGSSetDesktopImageURL" -> CGSSetDesktopImageURL_Ret
      [] f = "CGSMainConnectionID" -> CGSMainConnectionID_Ret

----------------------------------------------------------------------------
(* Values *)

NoValue == [type |-> "void", rep |-> <<>>]

Val(t, r) == [type |-> t, rep |-> r]

\* Limbs sampled near the limb boundaries, at the sign boundary, and as the
\* fill of a sign or zero extension.
LowLimbs == (0 .. Spread) \cup ((LimbMax - Spread) .. LimbMax)

TopLimbs == {0, SignBit - 1, SignBit, LimbMax}

MidLimbs == {0, LimbMax}

\* Values of integer type t: every limb sequence of the type's width whose
\* limbs are sampled as above.
IntSamples(t) ==
    IF NLimbs(t) = 2
    THEN {Val(t, <<a, d>>) : a \in LowLimbs, d \in TopLimbs}
    ELSE {Val(t, <<a, b, c, d>>) :
              a \in LowLimbs, b \in MidLimbs, c \in MidLimbs, d \in TopLimbs}

\* Values of an opaque reference type: NULL (0) or one of two objects.
RefSamples(t) == {Val(t, <<k>>) : k \in 0 .. 2}

Samples(t) == IF t \in IntTypes THEN IntSamples(t) ELSE RefSamples(t)

\* The mathematical value of an integer, as its 64-bit two's complement
\* limbs: sign extension for a signed type, zero extension for an unsigned.
Fill(v) ==
    IF TypeSigned(v.type) /\ v.rep[Len(v.rep)] >= SignBit THEN LimbMax ELSE 0

MathValue(v) ==
    [i \in 1 .. CanonLimbs |-> IF i <= Len(v.rep) THEN v.rep[i] ELSE Fill(v)]

\* C's conversion of integer v to integer type t: the value of t congruent
\* to v modulo 2^width.  A reference is passed as it is.
Convert(v, t) ==
    IF t \in IntTypes
    THEN Val(t, [i \in 1 .. NLimbs(t) |-> MathValue(v)[i]])
    ELSE v

\* The parameters the callee receives for the arguments g.
Receive(f, g) == [i \in 1 .. Len(Params(f)) |-> Convert(g[i], Params(f)[i])]

----------------------------------------------------------------------------
(* The caller and the three calls *)

Init ==
    /\ pc = "idle"
    /\ cid = NoValue
    /\ given = <<>>
    /\ args = <<>>
    /\ ret = NoValue
    /\ retOf = "none"

Enter(f, g) ==
    /\ pc = "idle"
    /\ Len(g) = Len(Params(f))
    /\ pc' = f
    /\ given' = g
    /\ args' = Receive(f, g)
    /\ ret' = NoValue
    /\ retOf' = "none"
    /\ UNCHANGED cid

Leave(f, r) ==
    /\ pc = f
    /\ pc' = "idle"
    /\ given' = <<>>
    /\ args' = <<>>
    /\ ret' = r
    /\ retOf' = f

\* uint32_t CGSMainConnectionID(void)
CallMainConnectionID == Enter("CGSMainConnectionID", <<>>)

\* The window server's answer is any value of the return type; the caller
\* keeps it as its connection identifier.
ReturnMainConnectionID ==
    \E r \in Samples(RetType("CGSMainConnectionID")) :
        /\ Leave("CGSMainConnectionID", r)
        /\ cid' = r

\* CFArrayRef CGSCopyManagedDisplaySpaces(uint32_t connection), called with
\* the identifier CGSMainConnectionID returned.
CallCopyManagedDisplaySpaces ==
    /\ cid # NoValue
    /\ Enter("CGSCopyManagedDisplaySpaces", <<cid>>)

ReturnCopyManagedDisplaySpaces ==
    \E r \in Samples(RetType("CGSCopyManagedDisplaySpaces")) :
        /\ Leave("CGSCopyManagedDisplaySpaces", r)
        /\ UNCHANGED cid

\* CGError CGSSetDesktopImageURL(uint32_t connection, int64_t spaceID,
\*                               CFURLRef url, CFDictionaryRef options)
CallSetDesktopImageURL ==
    /\ cid # NoValue
    /\ \E s \in Samples("int64_t"), u \in Samples("CFURLRef"),
          o \in Samples("CFDictionaryRef") :
            Enter("CGSSetDesktopImageURL", <<cid, s, u, o>>)

ReturnSetDesktopImageURL ==
    \E r \in Samples(RetType("CGSSetDesktopImageURL")) :
        /\ Leave("CGSSetDesktopImageURL", r)
        /\ UNCHANGED cid

Next ==
    \/ CallMainConnectionID
    \/ ReturnMainConnectionID
    \/ CallCopyManagedDisplaySpaces
    \/ ReturnCopyManagedDisplaySpaces
    \/ CallSetDesktopImageURL
    \/ ReturnSetDesktopImageURL

Spec == Init /\ [][Next]_vars

----------------------------------------------------------------------------
(* Properties *)

InCall(f) == pc = f

Returned(f) == pc = "idle" /\ retOf = f

IsUint32(v) ==
    /\ v.type = "uint32_t"
    /\ ~TypeSigned(v.type)
    /\ TypeBits(v.type) = 32
    /\ Len(v.rep) = 2
    /\ \A i \in 1 .. 2 : v.rep[i] \in 0 .. LimbMax
    /\ \A i \in 3 .. CanonLimbs : MathValue(v)[i] = 0

IsInt64(v) ==
    /\ v.type = "int64_t"
    /\ TypeSigned(v.type)
    /\ TypeBits(v.type) = 64
    /\ Len(v.rep) = 4
    /\ \A i \in 1 .. 4 : v.rep[i] \in 0 .. LimbMax

\* Converting v to type t keeps fewer bits than v has.
Narrows(v, t) == Len(Convert(v, t).rep) < Len(v.rep)

C6_ConnectionPassedUnchanged ==
    (InCall("CGSCopyManagedDisplaySpaces") \/ InCall("CGSSetDesktopImageURL")) =>
        /\ given[1] = cid
        /\ cid.type = RetType("CGSMainConnectionID")
        /\ args[1].type = cid.type
        /\ args[1].rep = cid.rep
        /\ MathValue(args[1]) = MathValue(cid)

\* C6 witness: CGSSetDesktopImageURL is entered with an identifier >= 2^31,
\* which a signed or narrower parameter would not hold.
C6_Witness ==
    /\ InCall("CGSSetDesktopImageURL")
    /\ given[1] = cid
    /\ cid.rep[2] >= SignBit

\* C7: the space identifier CGSSetDesktopImageURL receives is a signed 64-bit
\* integer, equal to the one passed over the whole range -2^63 .. 2^63-1; it
\* is wider than the connection identifier and than the CGError result, so
\* converting it to either type narrows it.
C7_SpaceIDIsInt64 ==
    InCall("CGSSetDesktopImageURL") =>
        /\ IsInt64(args[2])
        /\ MathValue(args[2]) = MathValue(given[2])
        /\ TypeBits(args[2].type) > TypeBits(args[1].type)
        /\ TypeBits(args[2].type) > TypeBits(RetType("CGSSetDesktopImageURL"))
        /\ Narrows(args[2], args[1].type)
        /\ Narrows(args[2], RetType("CGSSetDesktopImageURL"))

\* C7 witness: the space identifier -2^63 is received, and converting it to
\* the connection type or to CGError changes its value.
C7_Witness ==
    /\ InCall("CGSSetDesktopImageURL")
    /\ IsInt64(args[2])
    /\ args[2].rep = <<0, 0, 0, SignBit>>
    /\ MathValue(Convert(args[2], args[1].type)) # MathValue(args[2])
    /\ MathValue(Convert(args[2], CGError)) # MathValue(args[2])

====
